---- MODULE Spec2Model ----
(***************************************************************************)
(* Task service of the scriptAssist repository: TasksService (create,      *)
(* findAll, findOne, update, updateStatus, remove, batchProcessTasks), the  *)
(* controller's batchProcess loop, the relational store and the            *)
(* 'task-processing' queue they talk to; and the in-memory CacheService.   *)
(*                                                                         *)
(* Store semantics.  TasksService writes through this.tasksRepository, the *)
(* repository injected with @InjectRepository.  That repository is bound   *)
(* to the data source's default entity manager, not to the query runner    *)
(* that create/update open with dataSource.createQueryRunner(): a          *)
(* repository.save() therefore runs, and commits, in a transaction of its  *)
(* own, and the query runner's transaction holds no statement.  A failing  *)
(* save leaves the store as it was; a failing commitTransaction() or a     *)
(* rollbackTransaction() of the query runner changes nothing in the store. *)
(*                                                                         *)
(* Queue semantics.  taskQueue.add(name, payload) appends one job to the   *)
(* queue, or rejects (broker unreachable) and appends nothing.             *)
(***************************************************************************)
EXTENDS Integers, Sequences, FiniteSets, TLC

\* ------------------------------------------------------------------ bounds

\* Number of task ids the store can hand out (the id universe is 1..NumIds).
NumIds == 2
\* Longest queue a call may leave behind.
MaxQueue == 2
\* Longest id list of a batch request.
MaxBatch == 2

\* ------------------------------------------------------------ value domains

TaskIds == 1 .. NumIds

\* undefined / null of an optional string field
Absent == "absent"

\* TaskStatus enum (the members the controller's statistics name).
TaskStatus == {"PENDING", "IN_PROGRESS", "COMPLETED"}
COMPLETED == "COMPLETED"
\* Column default of Task.status.
DefaultStatus == "PENDING"

\* TaskPriority enum.
TaskPriority == {"LOW", "MEDIUM", "HIGH"}

\* Rows of the users table, and an id that is no row of it.
Users == {"u1", "u2"}
NoUser == "ghost"

\* What can go wrong in the environment during one service call: the store
\* statement (save / delete / update) fails, the query runner's commit
\* fails, or the queue rejects the job.
Faults == {"none", "write", "commit", "enqueue"}

\* The errors a failing store raises, by the statement that failed.
StoreErrors == {"SaveFailed", "CommitFailed", "DeleteFailed", "UpdateFailed"}

\* Return values.
Null == [kind |-> "null"]
TaskRet(t) == [kind |-> "task", task |-> t]
CountRet(field, n) == [kind |-> field, n |-> n]
MessageRet == [kind |-> "message"]
ResultsRet(items) == [kind |-> "results", items |-> items]

\* A job on the queue: taskQueue.add('task-status-update', {taskId, status}).
StatusUpdateEvent(id, status) ==
    [name |-> "task-status-update", taskId |-> id, status |-> status]

\* ------------------------------------------------------------------- state

VARIABLES
    tasks,   \* the tasks table: a function from the persisted ids to rows
    queue,   \* the 'task-processing' queue: the sequence of jobs added
    last,    \* the call that ran last: its operation, arguments and outcome
    cache,   \* CacheService.cache: the Map from namespaced keys to items
    now,     \* Date.now(), in milliseconds
    heap,    \* the objects of the process: a function from references to values
    held,    \* the references the cache's caller holds in its variables
    calls,   \* the service calls in progress, by the request that made them
    transactions  \* the number of query runners whose transaction is active

vars == <<tasks, queue, last, cache, now, heap, held, calls, transactions>>

\* The state of the CacheService and of its caller.
cacheVars == <<cache, now, heap, held>>

Range(s) == {s[i] : i \in 1 .. Len(s)}

\* The store without the row of id.
Without(T, ids) == [i \in (DOMAIN T) \ ids |-> T[i]]

\* The outcome of one service call on store T and queue Q; rejected counts
\* the taskQueue.add calls of the call that the queue rejected.
Outcome(T, Q, outcome, error, ret) ==
    [tasks |-> T, queue |-> Q, outcome |-> outcome, error |-> error, ret |-> ret,
     rejected |-> 0]

Rejecting(r, n) == [r EXCEPT !.rejected = n]

Returned(T, Q, ret) == Outcome(T, Q, "returned", "none", ret)
Raised(T, Q, error) == Outcome(T, Q, "raised", error, Null)

\* taskQueue.add: the queue after one add, which may be rejected.
QueueAdd(Q, ev, rejected) == IF rejected THEN Q ELSE Append(Q, ev)

\* --------------------------------------------------------- TasksService

\* tasksRepository.create + save of a new row: the entity built from the
\* dto, with the generated id and the column defaults filled in.
NewTask(dto, id, at) ==
    [ id          |-> id,
      title       |-> dto.title,
      description |-> dto.description,
      status      |-> IF dto.status = Absent THEN DefaultStatus ELSE dto.status,
      priority    |-> dto.priority,
      userId      |-> dto.userId,
      createdAt   |-> at ]

\* create with the job built from the dto instead of the saved entity.
create_eventFromDto(T, Q, dto, id, at, fault) ==
    IF fault = "write" \/ dto.userId \notin Users
    THEN Raised(T, Q, "SaveFailed")
    ELSE LET savedTask == NewTask(dto, id, at)
             T1 == (id :> savedTask) @@ T
             Q1 == QueueAdd(Q, StatusUpdateEvent(savedTask.id, dto.status),
                            fault = "enqueue")
             n  == IF fault = "enqueue" THEN 1 ELSE 0
         IN  IF fault = "commit"
             THEN Rejecting(Raised(T1, Q1, "CommitFailed"), n)
             ELSE Rejecting(Returned(T1, Q1, TaskRet(savedTask)), n)

\* TasksService.create.  id is the primary key the store generates, at the
\* store's clock.  The save fails on a store fault and on an owner that is
\* no row of users (foreign key); it commits on its own.  The job is added
\* right after the save, before commitTransaction, and is not awaited.
create(T, Q, dto, id, at, fault) ==
    IF fault = "write" \/ dto.userId \notin Users
    THEN Raised(T, Q, "SaveFailed")
    ELSE LET savedTask == NewTask(dto, id, at)
             T1 == (id :> savedTask) @@ T
             Q1 == QueueAdd(Q, StatusUpdateEvent(savedTask.id, savedTask.status),
                            fault = "enqueue")
             n  == IF fault = "enqueue" THEN 1 ELSE 0
         IN  IF fault = "commit"
             THEN Rejecting(Raised(T1, Q1, "CommitFailed"), n)
             ELSE Rejecting(Returned(T1, Q1, TaskRet(savedTask)), n)

\* TasksService.findOne: the row, or null.
findOne(T, id) == IF id \in DOMAIN T THEN TaskRet(T[id]) ELSE Null

\* Object.assign(task, updateTaskDto): the fields the patch carries replace
\* the task's.
Assign(task, patch) ==
    [task EXCEPT !.status   = IF patch.status = Absent THEN @ ELSE patch.status,
                 !.priority = IF patch.priority = Absent THEN @ ELSE patch.priority]

\* The body of update once the task is found: merge, save, enqueue, commit.
\* originalStatus is read from the task after Object.assign has written the
\* patch into it, and save returns that same object.
saveUpdated(T, Q, task, patch, fault) ==
    LET updatedTask == Assign(task, patch)
        originalStatus == updatedTask.status
    IN  IF fault = "write"
        THEN Raised(T, Q, "SaveFailed")
        ELSE LET updatedTaskSave == updatedTask
                 T1 == [T EXCEPT ![task.id] = updatedTaskSave]
                 changed == originalStatus # updatedTaskSave.status
                 Q1 == IF changed
                       THEN QueueAdd(Q, StatusUpdateEvent(updatedTask.id,
                                                          updatedTask.status),
                                     fault = "enqueue")
                       ELSE Q
                 n  == IF changed /\ fault = "enqueue" THEN 1 ELSE 0
             IN  IF fault = "commit"
                 THEN Rejecting(Raised(T1, Q1, "CommitFailed"), n)
                 ELSE Rejecting(Returned(T1, Q1, TaskRet(updatedTaskSave)), n)

\* update raising NotFoundException for a task it does not find.
update_raisesOnMissing(T, Q, id, patch, fault) ==
    LET found == findOne(T, id)
    IN  IF found = Null
        THEN Raised(T, Q, "NotFoundException")
        ELSE saveUpdated(T, Q, found.task, patch, fault)

\* TasksService.update: null when findOne finds no task.
update(T, Q, id, patch, fault) ==
    LET found == findOne(T, id)
    IN  IF found = Null
        THEN Returned(T, Q, Null)
        ELSE saveUpdated(T, Q, found.task, patch, fault)

\* remove answering success without deleting the row.
remove_keepsRow(T, Q, id, fault) ==
    IF fault = "write"
    THEN Raised(T, Q, "DeleteFailed")
    ELSE IF id \in DOMAIN T
         THEN Returned(T, Q, MessageRet)
         ELSE Raised(T, Q, "NotFoundException")

\* TasksService.remove: one DELETE by id; NotFoundException when it affected
\* no row.
remove(T, Q, id, fault) ==
    IF fault = "write"
    THEN Raised(T, Q, "DeleteFailed")
    ELSE LET affected == IF id \in DOMAIN T THEN 1 ELSE 0
         IN  IF affected = 0
             THEN Raised(T, Q, "NotFoundException")
             ELSE Returned(Without(T, {id}), Q, MessageRet)

\* TasksService.updateStatus: null when findOne finds no task; otherwise
\* the task is saved with the caller's string as its status, unvalidated
\* (`status as any`).  No job is added.  Whether the store accepts a status
\* that is no member of the enum is the column's business: enumColumn says
\* that the status column is a native enum, which rejects it.
updateStatus(T, Q, id, status, fault, enumColumn) ==
    LET found == findOne(T, id)
    IN  IF found = Null
        THEN Returned(T, Q, Null)
        ELSE IF fault = "write" \/ (enumColumn /\ status \notin TaskStatus)
        THEN Raised(T, Q, "SaveFailed")
        ELSE LET task == [found.task EXCEPT !.status = status]
             IN  Returned([T EXCEPT ![id] = task], Q, TaskRet(task))

\* The jobs batchProcessTasks adds: one per element of taskIds, in order,
\* each awaited; failAt is the position of the add that rejects (0: none),
\* which ends the loop with the rejection.
RECURSIVE EnqueueEach(_, _, _, _)
EnqueueEach(Q, taskIds, k, failAt) ==
    IF k > Len(taskIds) \/ k = failAt
    THEN Q
    ELSE EnqueueEach(Append(Q, StatusUpdateEvent(taskIds[k], COMPLETED)),
                     taskIds, k + 1, failAt)

\* batch complete undoing its UPDATE when an add is rejected.
batchComplete_undoesOnReject(T, Q, taskIds, fault, failAt) ==
    IF fault = "write"
    THEN Raised(T, Q, "UpdateFailed")
    ELSE LET hit == {i \in Range(taskIds) \cap DOMAIN T : T[i].status # COMPLETED}
             T1 == [i \in DOMAIN T |->
                       IF i \in hit THEN [T[i] EXCEPT !.status = COMPLETED]
                                    ELSE T[i]]
             Q1 == EnqueueEach(Q, taskIds, 1, failAt)
         IN  IF failAt \in 1 .. Len(taskIds)
             THEN Rejecting(Raised(T, Q1, "EnqueueFailed"), 1)
             ELSE Returned(T1, Q1, CountRet("updated", Cardinality(hit)))

\* batchProcessTasks, action 'complete': one UPDATE ... SET status =
\* COMPLETED WHERE id IN (taskIds) AND status != COMPLETED, then one job per
\* element of taskIds.
batchComplete(T, Q, taskIds, fault, failAt) ==
    IF fault = "write"
    THEN Raised(T, Q, "UpdateFailed")
    ELSE LET hit == {i \in Range(taskIds) \cap DOMAIN T : T[i].status # COMPLETED}
             T1 == [i \in DOMAIN T |->
                       IF i \in hit THEN [T[i] EXCEPT !.status = COMPLETED]
                                    ELSE T[i]]
             Q1 == EnqueueEach(Q, taskIds, 1, failAt)
         IN  IF failAt \in 1 .. Len(taskIds)
             THEN Rejecting(Raised(T1, Q1, "EnqueueFailed"), 1)
             ELSE Returned(T1, Q1, CountRet("updated", Cardinality(hit)))

\* batch delete refusing a list that names a missing id, as remove does.
batchDelete_strict(T, Q, taskIds, fault) ==
    IF fault = "write"
    THEN Raised(T, Q, "DeleteFailed")
    ELSE IF Range(taskIds) \subseteq DOMAIN T
         THEN Returned(Without(T, Range(taskIds)), Q,
                       CountRet("deleted", Cardinality(Range(taskIds))))
         ELSE Raised(T, Q, "NotFoundException")

\* batchProcessTasks, action 'delete': one DELETE ... WHERE id IN (taskIds).
batchDelete(T, Q, taskIds, fault) ==
    IF fault = "write"
    THEN Raised(T, Q, "DeleteFailed")
    ELSE LET hit == Range(taskIds) \cap DOMAIN T
         IN  Returned(Without(T, hit), Q, CountRet("deleted", Cardinality(hit)))

\* TasksService.batchProcessTasks.
batchProcessTasks(T, Q, taskIds, action, fault, failAt) ==
    IF action = "complete"
    THEN batchComplete(T, Q, taskIds, fault, failAt)
    ELSE IF action = "delete"
    THEN batchDelete(T, Q, taskIds, fault)
    ELSE Raised(T, Q, "Error")

\* ----------------------------------------------------- TasksService.findAll

\* Destructuring defaults of findAll.
DefaultPage == 1
DefaultLimit == 10

\* Optional numbers (page, limit, dateFrom, dateTo) are sequences of length
\* at most one; <<>> is undefined.  An optional text is a sequence of
\* characters; the empty text is as falsy as undefined.
OrDefault(opt, default) == IF opt = <<>> THEN default ELSE opt[1]

\* SQL LIKE: '%' matches any run of characters, '_' any one character.
RECURSIVE Like(_, _)
Like(text, pattern) ==
    IF pattern = <<>>
    THEN text = <<>>
    ELSE IF Head(pattern) = "%"
    THEN Like(text, Tail(pattern)) \/ (text # <<>> /\ Like(Tail(text), pattern))
    ELSE /\ text # <<>>
         /\ Head(pattern) = "_" \/ Head(pattern) = Head(text)
         /\ Like(Tail(text), Tail(pattern))

\* The andWhere conditions findAll appends, in its order: one per filter
\* field that is truthy.
Conditions(payload) ==
    LET c1 == IF payload.status # Absent
              THEN <<[field |-> "status", value |-> payload.status]>> ELSE <<>>
        c2 == IF payload.priority # Absent
              THEN <<[field |-> "priority", value |-> payload.priority]>> ELSE <<>>
        c3 == IF payload.userId # Absent
              THEN <<[field |-> "userId", value |-> payload.userId]>> ELSE <<>>
        c4 == IF payload.searchQuery # <<>>
              THEN <<[field |-> "searchQuery",
                      value |-> <<"%">> \o payload.searchQuery \o <<"%">>]>>
              ELSE <<>>
        c5 == IF payload.dateFrom # <<>>
              THEN <<[field |-> "dateFrom", value |-> payload.dateFrom[1]]>> ELSE <<>>
        c6 == IF payload.dateTo # <<>>
              THEN <<[field |-> "dateTo", value |-> payload.dateTo[1]]>> ELSE <<>>
    IN  c1 \o c2 \o c3 \o c4 \o c5 \o c6

\* Whether a row satisfies one condition of the WHERE clause.
Holds(row, c) ==
    CASE c.field = "status"      -> row.status = c.value
      [] c.field = "priority"    -> row.priority = c.value
      [] c.field = "userId"      -> row.userId = c.value
      [] c.field = "searchQuery" -> Like(row.title, c.value)
                                    \/ Like(row.description, c.value)
      [] c.field = "dateFrom"    -> row.createdAt >= c.value
      [] c.field = "dateTo"      -> row.createdAt <= c.value

\* The ids of the rows the WHERE clause selects.
Matching(T, payload) ==
    LET where == Conditions(payload)
    IN  {i \in DOMAIN T : \A k \in 1 .. Len(where) : Holds(T[i], where[k])}

\* Columns of the tasks table the store can order by (numeric ones).
TaskColumns == {"id", "createdAt"}
ColumnValue(row, column) == IF column = "createdAt" THEN row.createdAt ELSE row.id

\* orderBy(sortingColumn ? `task.${sortingColumn}` : 'task.id', sortingOrder):
\* the column is the caller's string as it is; an undefined order is the
\* query builder's default, ASC.
OrderColumn(payload) ==
    IF payload.sortingColumn # Absent THEN payload.sortingColumn ELSE "id"
OrderDirection(payload) ==
    IF payload.sortingOrder = Absent THEN "ASC" ELSE payload.sortingOrder

InOrder(a, b, direction) == IF direction = "ASC" THEN a <= b ELSE a >= b

\* The sequences in which the store may return the selected rows: every
\* arrangement ordered by the column; rows with equal keys come in any order.
StoreOrders(T, rows, column, direction) ==
    IF column \notin TaskColumns
    THEN {<<>>}
    ELSE {ord \in [1 .. Cardinality(rows) -> rows] :
            /\ \A j, k \in DOMAIN ord : j # k => ord[j] # ord[k]
            /\ \A j, k \in DOMAIN ord :
                  j < k => InOrder(ColumnValue(T[ord[j]], column),
                                   ColumnValue(T[ord[k]], column), direction)}

\* `const skip = (page - 1) * limit`, the argument of .skip().
Skip(payload) ==
    (OrDefault(payload.page, DefaultPage) - 1) * OrDefault(payload.limit, DefaultLimit)

PageRet(rows, count) == [kind |-> "page", tasks |-> rows, count |-> count]

\* TasksService.findAll.  ord is the order in which the store returns the
\* selected rows.  An ORDER BY column the table does not have fails the
\* query.  OFFSET skip with skip < 0 fails the query on a store that
\* rejects a negative offset (strictOffset: PostgreSQL, MySQL) and reads as
\* OFFSET 0 on one that does not (SQLite).
findAll(T, Q, payload, ord, strictOffset) ==
    LET page == OrDefault(payload.page, DefaultPage)
        limit == OrDefault(payload.limit, DefaultLimit)
        skip == Skip(payload)
        column == OrderColumn(payload)
    IN  IF column \notin TaskColumns \/ (skip < 0 /\ strictOffset)
        THEN Raised(T, Q, "QueryFailed")
        ELSE LET offset == IF skip < 0 THEN 0 ELSE skip
                 left == IF Len(ord) > offset THEN Len(ord) - offset ELSE 0
                 n == IF left < limit THEN left ELSE limit
             IN  Returned(T, Q, PageRet([k \in 1 .. n |-> T[ord[offset + k]]],
                                        Cardinality(Matching(T, payload))))

\* ------------------------------------------------------- TasksController

\* One entry of the controller's results array.
ResultItem(taskId, r) ==
    [taskId |-> taskId, success |-> r.outcome = "returned", error |-> r.error]

\* One turn of the loop of TasksController.batchProcess: the service call
\* for one id.
batchItem(T, Q, taskId, action, fault) ==
    IF action = "complete"
    THEN update(T, Q, taskId, [status |-> COMPLETED, priority |-> Absent], fault)
    ELSE IF action = "delete"
    THEN remove(T, Q, taskId, fault)
    ELSE Raised(T, Q, "InvalidActionError")

\* The loop of TasksController.batchProcess from position k on: one service
\* call per id (update to COMPLETED, or remove), every exception caught and
\* pushed as a failed item.  The default branch calls res500, which throws
\* its HttpException inside the same try block.
RECURSIVE batchLoop(_, _, _, _, _, _, _, _)
batchLoop(T, Q, taskIds, action, faults, k, results, rej) ==
    IF k > Len(taskIds)
    THEN Rejecting(Returned(T, Q, ResultsRet(results)), rej)
    ELSE LET taskId == taskIds[k]
             r == batchItem(T, Q, taskId, action, faults[k])
         IN  batchLoop(r.tasks, r.queue, taskIds, action, faults, k + 1,
                       Append(results, ResultItem(taskId, r)), rej + r.rejected)

\* TasksController.batchProcess.
batchProcess(T, Q, taskIds, action, faults) ==
    IF Len(taskIds) = 0
    THEN Raised(T, Q, "BadRequest")
    ELSE batchLoop(T, Q, taskIds, action, faults, 1, <<>>, 0)

\* ------------------------------------------------------------------ inputs

\* Texts are sequences of characters.
CreateTaskDtos ==
    [ title       : {<<"a">>},
      description : {<<>>},
      status      : {Absent, COMPLETED},
      priority    : {"MEDIUM"},
      userId      : {"u1", NoUser} ]

UpdateTaskDtos ==
    [ status : {Absent, DefaultStatus, COMPLETED}, priority : {Absent, "HIGH"} ]

\* Batch actions a request body can carry; "archive" is outside the enum.
BatchActions == {"complete", "delete", "archive"}

\* Id lists of a batch request, duplicates and unknown ids included.  The
\* ids are listed in ascending order: the order of a list decides only the
\* order of the jobs and result items of the request.
IdLists(minLen) ==
    UNION {{l \in [1 .. n -> TaskIds] : \A j, k \in 1 .. n : j < k => l[j] <= l[k]} :
              n \in minLen .. MaxBatch}

\* ------------------------------------------------------------- transitions

NoArgs == [none |-> TRUE]

\* No call is in progress: the service waits for the next request.
Idle == [op |-> "idle", args |-> NoArgs,
         outcome |-> "returned", error |-> "none", ret |-> Null,
         tasksBefore |-> <<>>, emitted |-> <<>>, rejected |-> 0]

\* Whether the call that ran last, and whose answer the caller has not
\* taken yet, is a call of op.
Called(op) == last.op = op

\* A CacheService just constructed, which no caller has used yet.
NoCache ==
    /\ cache = <<>>
    /\ now = 0
    /\ heap = <<>>
    /\ held = <<>>

\* The requests that can be in progress at once, and the state of one that
\* has no service call in progress.
NumRequests == 2
Requests == 1 .. NumRequests
NoCall == [op |-> "none"]
NoCalls == calls = [c \in Requests |-> NoCall]

\* No query runner has a transaction active.
NoTransactions == transactions = 0

Init ==
    /\ tasks = <<>>
    /\ queue = <<>>
    /\ last = Idle
    /\ NoCache
    /\ NoCalls
    /\ NoTransactions

\* The store and the queue after a call, and the record of the call:
\* tasksBefore is the tasks table the call started from, emitted the jobs
\* the call added to the queue, rejected the adds the queue rejected.  A call is left out when the queue it leaves
\* would be longer than MaxQueue.
Record(op, args, r, before) ==
    /\ Len(r.queue) <= MaxQueue
    /\ tasks' = r.tasks
    /\ queue' = r.queue
    /\ last' = [op |-> op, args |-> args,
                outcome |-> r.outcome, error |-> r.error, ret |-> r.ret,
                tasksBefore |-> before,
                emitted |-> SubSeq(r.queue, Len(queue) + 1, Len(r.queue)),
                rejected |-> r.rejected]
    /\ UNCHANGED cacheVars

\* A call that runs from its start to its answer with no other request in
\* between.
Apply(op, args, r) ==
    /\ Record(op, args, r, tasks)
    /\ UNCHANGED <<calls, transactions>>

\* Requests are served one at a time: a call starts once the caller has
\* taken the answer of the one before.
Create ==
    /\ last = Idle
    /\ \E dto \in CreateTaskDtos, id \in TaskIds \ DOMAIN tasks, fault \in Faults :
          Apply("create", [dto |-> dto],
                create(tasks, queue, dto, id, 1, fault))

FindOne ==
    /\ last = Idle
    /\ \E id \in TaskIds :
          Apply("findOne", [id |-> id], Returned(tasks, queue, findOne(tasks, id)))

Update ==
    /\ last = Idle
    /\ \E id \in TaskIds, patch \in UpdateTaskDtos, fault \in Faults :
          Apply("update", [id |-> id, patch |-> patch],
                update(tasks, queue, id, patch, fault))

Remove ==
    /\ last = Idle
    /\ \E id \in TaskIds, fault \in {"none", "write"} :
          Apply("remove", [id |-> id], remove(tasks, queue, id, fault))

\* fault: the set-based statement fails; failAt: the position of the
\* taskQueue.add that rejects (0: none), which only 'complete' reaches.
BatchProcessTasks ==
    /\ last = Idle
    /\ \E taskIds \in IdLists(0), action \in BatchActions,
          fault \in {"none", "write"}, failAt \in 0 .. MaxBatch :
          /\ failAt <= Len(taskIds)
          /\ failAt # 0 => action = "complete" /\ fault = "none"
          /\ fault # "none" => action \in {"complete", "delete"}
          /\ Apply("batchProcessTasks",
                   [taskIds |-> taskIds, action |-> action],
                   batchProcessTasks(tasks, queue, taskIds, action, fault, failAt))

\* The fault vectors of a request over n ids: faults[k] is what goes wrong
\* in the service call for the k-th id; at most one call of a request is hit.
ItemFaults(n) ==
    {[k \in 1 .. n |-> "none"]}
        \cup {[k \in 1 .. n |-> IF k = at THEN fault ELSE "none"] :
                 at \in 1 .. n, fault \in {"write", "commit"}}

BatchProcess ==
    /\ last = Idle
    /\ \E taskIds \in IdLists(0), action \in BatchActions :
          \E faults \in ItemFaults(Len(taskIds)) :
              /\ action \notin {"complete", "delete"} =>
                     \A k \in 1 .. Len(taskIds) : faults[k] = "none"
              /\ Apply("batchProcess",
                       [taskIds |-> taskIds, action |-> action],
                       batchProcess(tasks, queue, taskIds, action, faults))

\* The caller takes the answer (the returned value or the raised error).
Respond ==
    /\ last # Idle
    /\ last' = Idle
    /\ UNCHANGED <<tasks, queue, cacheVars, calls, transactions>>

Next ==
    \/ Respond
    \/ Create
    \/ FindOne
    \/ Update
    \/ Remove
    \/ BatchProcessTasks
    \/ BatchProcess

Spec == Init /\ [][Next]_vars

\* Statuses updateStatus is called with: a member of the enum, and a string
\* that is none.
StatusStrings == {COMPLETED, "DONE"}

\* The task processor reports a status.
UpdateStatus ==
    /\ last = Idle
    /\ \E id \in TaskIds, status \in StatusStrings,
          fault \in {"none", "write"}, enumColumn \in BOOLEAN :
          Apply("updateStatus", [id |-> id, status |-> status],
                updateStatus(tasks, queue, id, status, fault, enumColumn))

\* The service with its task processor.
ProcessorNext == Next \/ UpdateStatus

SpecProcessor == Init /\ [][ProcessorNext]_vars

\* ---------------------------------------------------------- units of work

\* Most transactions the model lets stay active.
MaxActive == 2

\* QueryRunner: the state of its transaction after startTransaction(),
\* after a commitTransaction() that succeeds and after rollbackTransaction().
\* A commitTransaction() that throws leaves the transaction as it was.
startTransaction == "active"
commitTransaction(txn) == "committed"
rollbackTransaction(txn) == "rolledBack"

\* The transaction of the query runner that create made, when create ends:
\* started before the try block, committed at its end, rolled back by the
\* catch block when the save or the commit threw.
createTransaction(dto, fault) ==
    LET txn == startTransaction
    IN  IF fault = "write" \/ dto.userId \notin Users
        THEN rollbackTransaction(txn)
        ELSE IF fault = "commit"
        THEN rollbackTransaction(txn)
        ELSE commitTransaction(txn)

\* The same for update, whose `return null` for a task that is not found
\* leaves the try block past neither commit nor rollback.
updateTransaction(T, id, fault) ==
    LET txn == startTransaction
    IN  IF findOne(T, id) = Null
        THEN txn
        ELSE IF fault = "write"
        THEN rollbackTransaction(txn)
        ELSE IF fault = "commit"
        THEN rollbackTransaction(txn)
        ELSE commitTransaction(txn)

\* The active transactions after a call that ended with its own in txn.
Active(txn) == transactions + (IF txn = "active" THEN 1 ELSE 0)

CreateUnit ==
    /\ last = Idle
    /\ \E dto \in CreateTaskDtos, id \in TaskIds \ DOMAIN tasks, fault \in Faults :
          /\ Record("create", [dto |-> dto],
                    create(tasks, queue, dto, id, 1, fault), tasks)
          /\ transactions' = Active(createTransaction(dto, fault))
    /\ UNCHANGED calls

UpdateUnit ==
    /\ last = Idle
    /\ \E id \in TaskIds, patch \in UpdateTaskDtos, fault \in Faults :
          /\ Active(updateTransaction(tasks, id, fault)) <= MaxActive
          /\ Record("update", [id |-> id, patch |-> patch],
                    update(tasks, queue, id, patch, fault), tasks)
          /\ transactions' = Active(updateTransaction(tasks, id, fault))
    /\ UNCHANGED calls

\* create and update with the query runners they make.
UnitsNext ==
    \/ Respond
    \/ CreateUnit
    \/ UpdateUnit

SpecUnits == Init /\ [][UnitsNext]_vars

\* ------------------------------------------------- requests in parallel

\* Every await of a service method gives way to the other requests of the
\* process.  A request is followed here from one store statement to the
\* next: what it has read stays in its call state while others run.

\* TasksService.find: every row.
RowsRet(rows) == [kind |-> "rows", rows |-> rows]
find(T) == RowsRet(T)

\* The stores the requests start from.
SharedRows(id) ==
    [ id          : {id},
      title       : {<<"a">>},
      description : {<<>>},
      status      : {DefaultStatus, COMPLETED},
      priority    : {"MEDIUM"},
      userId      : {"u1"},
      createdAt   : {1} ]

SharedStores ==
    UNION {{T \in [ids -> UNION {SharedRows(i) : i \in ids}] :
               \A i \in ids : T[i].id = i} : ids \in SUBSET TaskIds}

\* Patches of the updates that run in parallel: one names the status only,
\* one the priority only.
SharedPatches ==
    {[status |-> COMPLETED, priority |-> Absent], [status |-> Absent, priority |-> "HIGH"]}

SharedInit ==
    /\ tasks \in SharedStores
    /\ queue = <<>>
    /\ last = Idle
    /\ NoCache
    /\ NoCalls
    /\ NoTransactions

\* Whether c is the request that makes the next call: requests differ in
\* nothing but their names, so it is the first that has none in progress.
Free(c) == calls[c] = NoCall /\ \A d \in Requests : d < c => calls[d] # NoCall

\* The answer of a request's call, after which the request has no call in
\* progress.
Answer(c, op, args, r, before) ==
    /\ Record(op, args, r, before)
    /\ calls' = [calls EXCEPT ![c] = NoCall]
    /\ UNCHANGED transactions

\* update up to its first store statement: `await this.findOne(id)`.  A
\* task that is not found ends the call with null; a found one is kept by
\* the call as the entity it will merge into and save.
UpdateFind ==
    /\ last = Idle
    /\ \E c \in Requests, id \in TaskIds, patch \in SharedPatches :
          /\ Free(c)
          /\ LET found == findOne(tasks, id)
             IN  IF found = Null
                 THEN Answer(c, "update", [id |-> id, patch |-> patch],
                             update(tasks, queue, id, patch, "none"), tasks)
                 ELSE /\ calls' = [calls EXCEPT ![c] =
                                      [op |-> "update", id |-> id, patch |-> patch,
                                       task |-> found.task]]
                      /\ UNCHANGED <<tasks, queue, last, cacheVars, transactions>>

\* The rest of update: Object.assign into the entity found earlier, save,
\* commit.  save writes the entity as the call holds it.
UpdateSave ==
    /\ last = Idle
    /\ \E c \in Requests, fault \in {"none", "write"} :
          /\ calls[c].op = "update"
          /\ calls[c].id \in DOMAIN tasks
          /\ Answer(c, "update", [id |-> calls[c].id, patch |-> calls[c].patch],
                    saveUpdated(tasks, queue, calls[c].task, calls[c].patch, fault),
                    tasks)

\* TasksController.batchProcess up to its loop; before is the store the
\* request started from.  One batch request is followed at a time.
BatchBegin ==
    /\ last = Idle
    /\ \A d \in Requests : calls[d].op # "batchProcess"
    /\ \E c \in Requests, taskIds \in IdLists(1), action \in {"complete", "delete"} :
          /\ Free(c)
          /\ IF Len(taskIds) = 0
             THEN Answer(c, "batchProcess", [taskIds |-> taskIds, action |-> action],
                         batchProcess(tasks, queue, taskIds, action, <<>>), tasks)
             ELSE /\ calls' = [calls EXCEPT ![c] =
                                  [op |-> "batchProcess", taskIds |-> taskIds,
                                   action |-> action, k |-> 1, results |-> <<>>,
                                   before |-> tasks]]
                  /\ UNCHANGED <<tasks, queue, last, cacheVars, transactions>>

\* One turn of the loop: `await this.tasksService.update(...)` or
\* `remove(...)` for the next id, its result or its exception pushed.
BatchTurn ==
    /\ last = Idle
    /\ \E c \in Requests, fault \in {"none", "write"} :
          /\ calls[c].op = "batchProcess"
          /\ calls[c].k <= Len(calls[c].taskIds)
          /\ LET taskId == calls[c].taskIds[calls[c].k]
                 r == batchItem(tasks, queue, taskId, calls[c].action, fault)
             IN  /\ tasks' = r.tasks
                 /\ queue' = r.queue
                 /\ calls' = [calls EXCEPT
                                 ![c].k = @ + 1,
                                 ![c].results = Append(@, ResultItem(taskId, r))]
          /\ UNCHANGED <<last, cacheVars, transactions>>

\* `return results` after the last turn.
BatchEnd ==
    /\ last = Idle
    /\ \E c \in Requests :
          /\ calls[c].op = "batchProcess"
          /\ calls[c].k > Len(calls[c].taskIds)
          /\ Answer(c, "batchProcess",
                    [taskIds |-> calls[c].taskIds, action |-> calls[c].action],
                    Returned(tasks, queue, ResultsRet(calls[c].results)),
                    calls[c].before)

\* TasksService.batchProcessTasks: its store statement is one statement.
BatchStatement ==
    /\ last = Idle
    /\ \E taskIds \in IdLists(1), action \in {"complete", "delete"},
          fault \in {"none", "write"}, failAt \in 0 .. 1 :
          /\ failAt # 0 => action = "complete" /\ fault = "none"
          /\ Apply("batchProcessTasks", [taskIds |-> taskIds, action |-> action],
                   batchProcessTasks(tasks, queue, taskIds, action, fault, failAt))

\* Another request reads every task while calls are in progress.
Find ==
    /\ last = Idle
    /\ Apply("find", NoArgs, Returned(tasks, queue, find(tasks)))

\* A batch request among readers.
BatchNext ==
    \/ Respond
    \/ BatchBegin
    \/ BatchTurn
    \/ BatchEnd
    \/ BatchStatement
    \/ Find

SpecBatch == SharedInit /\ [][BatchNext]_vars

\* Updates in parallel.
UpdatesNext ==
    \/ Respond
    \/ UpdateFind
    \/ UpdateSave

SpecUpdates == SharedInit /\ [][UpdatesNext]_vars

\* ------------------------------------------------------------ query engine

\* Rows the store may hold when a query arrives.
QueryRows(id) ==
    [ id          : {id},
      title       : {<<"a">>, <<"b">>},
      description : {<<"b">>},
      status      : {DefaultStatus, COMPLETED},
      priority    : {"LOW", "HIGH"},
      userId      : Users,
      createdAt   : {1, 2} ]

QueryStores ==
    UNION {{T \in [ids -> UNION {QueryRows(i) : i \in ids}] :
               \A i \in ids : T[i].id = i} : ids \in SUBSET TaskIds}

\* Filter specifications the input contract admits (page >= 0, limit >= 1),
\* and a sortingColumn that is no column.  Searches carry no LIKE wildcard.
TaskFilterDtos ==
    [ page          : {<<>>, <<0>>, <<2>>},
      limit         : {<<>>, <<1>>},
      searchQuery   : {<<>>, <<"a">>, <<"b">>},
      status        : {Absent, COMPLETED},
      priority      : {Absent, "HIGH"},
      userId        : {Absent, "u1"},
      dateFrom      : {<<>>, <<2>>},
      dateTo        : {<<>>, <<1>>},
      sortingColumn : {Absent, "createdAt", "nope"},
      sortingOrder  : {Absent, "DESC"} ]

QueryInit ==
    /\ tasks \in QueryStores
    /\ queue = <<>>
    /\ last = Idle
    /\ NoCache
    /\ NoCalls
    /\ NoTransactions

\* strictOffset matters only to a query with a negative offset.  A query
\* changes nothing that a later query reads: one query per store covers
\* them all.
FindAll ==
    /\ last = Idle
    /\ \E payload \in TaskFilterDtos, strictOffset \in BOOLEAN :
          /\ ~strictOffset => payload.page = <<0>>
          /\ \E ord \in StoreOrders(tasks, Matching(tasks, payload),
                                    OrderColumn(payload), OrderDirection(payload)) :
                Apply("findAll", [payload |-> payload],
                      findAll(tasks, queue, payload, ord, strictOffset))

QueryNext == FindAll

SpecQuery == QueryInit /\ [][QueryNext]_vars

\* ------------------------------------------------------------ CacheService

\* Longest time the clock runs, in seconds.
MaxSeconds == 3

\* JavaScript values a caller can pass as `value: any`.  An object has the
\* property a or no property; a property holds a value that is no object.
Undefined == [t |-> "undefined"]
JsNull == [t |-> "null"]
NaN == [t |-> "NaN"]
Num(n) == [t |-> "number", n |-> n]
Str(s) == [t |-> "string", s |-> s]
Date(iso) == [t |-> "Date", iso |-> iso]
Obj(props) == [t |-> "object", props |-> props]
NoProps == [p \in {} |-> Undefined]

\* JSON texts, by what they denote; NoText is the undefined that
\* JSON.stringify returns for a value that has no JSON text.
NoText == [j |-> "undefined"]
JNull == [j |-> "null"]
JNum(n) == [j |-> "number", n |-> n]
JStr(s) == [j |-> "string", s |-> s]
JObj(props) == [j |-> "object", props |-> props]

\* JSON.stringify: undefined has no text; NaN is written null; a Date is
\* written as the string of its toJSON(); a property whose value has no
\* text is left out of its object.
RECURSIVE stringify(_)
stringify(v) ==
    CASE v.t = "undefined" -> NoText
      [] v.t = "null"      -> JNull
      [] v.t = "NaN"       -> JNull
      [] v.t = "number"    -> JNum(v.n)
      [] v.t = "string"    -> JStr(v.s)
      [] v.t = "Date"      -> JStr(v.iso)
      [] v.t = "object"    ->
            LET kept == {p \in DOMAIN v.props : stringify(v.props[p]) # NoText}
            IN  JObj([p \in kept |-> stringify(v.props[p])])

\* JSON.parse of a text that is one (parse(undefined) throws SyntaxError).
RECURSIVE parse(_)
parse(text) ==
    CASE text.j = "null"   -> JsNull
      [] text.j = "number" -> Num(text.n)
      [] text.j = "string" -> Str(text.s)
      [] text.j = "object" -> Obj([p \in DOMAIN text.props |-> parse(text.props[p])])

\* Whether JSON.parse(JSON.stringify(v)) throws, and what it returns.
CloneThrows(v) == stringify(v) = NoText
Clone(v) == parse(stringify(v))

\* `private namespace = 'app'` and the template literal of namespacedKey:
\* the namespace and the text the key converts to.
namespace == "app"
namespacedKey(key) == <<namespace, key.text>>

\* Keys as callers pass them: a string, or a value of another type with the
\* text a template literal gives it.
StrKey(s) == [type |-> "string", text |-> s]
UndefinedKey == [type |-> "undefined", text |-> "undefined"]
NumKey(text) == [type |-> "number", text |-> text]

\* `ttlSeconds = 300`, and the milliseconds of a second.
DefaultTtlSeconds == 300
MsPerSecond == 1000

\* The outcome of one CacheService call on cache C and heap H.
CacheOutcome(C, H, outcome, error, ret) ==
    [cache |-> C, heap |-> H, outcome |-> outcome, error |-> error, ret |-> ret]
CacheReturned(C, H, ret) == CacheOutcome(C, H, "returned", "none", ret)
CacheRaised(C, H, error) == CacheOutcome(C, H, "raised", error, Null)

Void == [kind |-> "void"]
BoolRet(b) == [kind |-> "boolean", b |-> b]
\* A returned reference, with the value it refers to when it is returned.
RefRet(ref, value) == [kind |-> "ref", ref |-> ref, value |-> value]

\* A reference no object of the heap has yet.
Fresh(H) == CHOOSE r \in 1 .. Cardinality(DOMAIN H) + 1 : r \notin DOMAIN H

\* Map.delete(key): the map without the key.
MapDelete(C, k) == [j \in (DOMAIN C) \ {k} |-> C[j]]

\* `item.expiresAt < Date.now()`
Expired(item, t) == item.expiresAt < t

\* set storing under whatever key it is given.
set_anyKey(C, H, key, value, ttl, t) ==
    IF CloneThrows(H[value])
    THEN CacheRaised(C, H, "SyntaxError")
    ELSE LET safeValue == Fresh(H)
             H1 == (safeValue :> Clone(H[value])) @@ H
             expiresAt == t + OrDefault(ttl, DefaultTtlSeconds) * MsPerSecond
             item == [value |-> safeValue, expiresAt |-> expiresAt]
             C1 == (namespacedKey(key) :> item) @@ MapDelete(C, namespacedKey(key))
         IN  CacheReturned(C1, H1, Void)

\* CacheService.set.  value is the reference (or the primitive, held in a
\* cell of its own) the caller passes, ttl its optional ttlSeconds, t the
\* clock.  safeValue is a new object: the JSON round trip of the value.
set(C, H, key, value, ttl, t) ==
    IF key.text = "" \/ key.type # "string"
    THEN CacheRaised(C, H, "Invalid cache key")
    ELSE IF CloneThrows(H[value])
    THEN CacheRaised(C, H, "SyntaxError")
    ELSE LET safeValue == Fresh(H)
             H1 == (safeValue :> Clone(H[value])) @@ H
             expiresAt == t + OrDefault(ttl, DefaultTtlSeconds) * MsPerSecond
             item == [value |-> safeValue, expiresAt |-> expiresAt]
             C1 == (namespacedKey(key) :> item) @@ MapDelete(C, namespacedKey(key))
         IN  CacheReturned(C1, H1, Void)

\* get answering null for an expired item without deleting it.
get_keepsExpired(C, H, key, t) ==
    LET k == namespacedKey(key)
    IN  IF k \notin DOMAIN C \/ Expired(C[k], t)
        THEN CacheReturned(C, H, Null)
        ELSE LET copy == Fresh(H)
                 H1 == (copy :> Clone(H[C[k].value])) @@ H
             IN  CacheReturned(C, H1, RefRet(copy, H1[copy]))

\* CacheService.get: null for no item; an expired item is deleted and null
\* returned; otherwise a new object, the JSON round trip of the item's value.
get(C, H, key, t) ==
    LET k == namespacedKey(key)
    IN  IF k \notin DOMAIN C
        THEN CacheReturned(C, H, Null)
        ELSE IF Expired(C[k], t)
        THEN CacheReturned(MapDelete(C, k), H, Null)
        ELSE IF CloneThrows(H[C[k].value])
        THEN CacheRaised(C, H, "SyntaxError")
        ELSE LET copy == Fresh(H)
                 H1 == (copy :> Clone(H[C[k].value])) @@ H
             IN  CacheReturned(C, H1, RefRet(copy, H1[copy]))

\* CacheService.delete: whether the map held the key, expired or not.
delete(C, H, key) ==
    LET k == namespacedKey(key)
    IN  CacheReturned(MapDelete(C, k), H, BoolRet(k \in DOMAIN C))

\* CacheService.clear.
clear(C, H) == CacheReturned(<<>>, H, Void)

\* CacheService.has: false, after a Map.delete of the key, for no item and
\* for an expired one.
has(C, H, key, t) ==
    LET k == namespacedKey(key)
    IN  IF k \notin DOMAIN C \/ Expired(C[k], t)
        THEN CacheReturned(MapDelete(C, k), H, BoolRet(FALSE))
        ELSE CacheReturned(C, H, BoolRet(TRUE))

\* cleanupExpired visiting the items and deleting none.
cleanupExpired_deletesNone(C, H, t) == CacheReturned(C, H, Void)

\* CacheService.cleanupExpired, the callback of the constructor's
\* setInterval: every item is visited and the expired ones are deleted.
cleanupExpired(C, H, t) ==
    CacheReturned([k \in {j \in DOMAIN C : ~Expired(C[j], t)} |-> C[k]], H, Void)

\* -------------------------------------------------- CacheService: inputs

\* The caller's variable, and the target of a call whose result it drops.
CallerVars == {"x"}
Discard == "discard"

\* Keys set is called with: two proper ones, the empty string, undefined
\* and a number.  The other methods are called with the proper ones.
ProperKeys == {StrKey("a"), StrKey("b")}
CacheKeys == ProperKeys \cup {StrKey(""), UndefinedKey, NumKey("7")}

\* ttlSeconds arguments: none (the default), 0 and 1.
Ttls == {<<>>, <<0>>, <<1>>}

\* Values the caller builds.
PlainValues == {Obj("a" :> Num(1))}
AnyValues ==
    PlainValues \cup {Obj("a" :> Undefined), Obj(NoProps), Num(1), NaN, Undefined,
                      Date("2026-01-01T00:00:00.000Z")}

\* ---------------------------------------------- CacheService: transitions

\* The objects still referred to: by a variable of the caller or by an item
\* of the cache.  The others are garbage.
Collect(H, C, h) ==
    LET live == {h[v] : v \in DOMAIN h} \cup {C[k].value : k \in DOMAIN C}
    IN  [r \in (DOMAIN H) \cap live |-> H[r]]

\* The values of the cache's items, by key.
StoredValues == [k \in DOMAIN cache |-> heap[cache[k].value]]

\* The state after a CacheService call, and the record of the call:
\* cacheBefore is the map the call started from, at its clock.  A returned
\* reference is kept in the caller's variable target, or dropped.
ApplyCache(op, args, r, target) ==
    LET h1 == IF target \in CallerVars /\ r.ret.kind = "ref"
              THEN (target :> r.ret.ref) @@ held ELSE held
    IN  /\ cache' = r.cache
        /\ held' = h1
        /\ heap' = Collect(r.heap, r.cache, h1)
        /\ last' = [op |-> op, args |-> args,
                    outcome |-> r.outcome, error |-> r.error, ret |-> r.ret,
                    cacheBefore |-> cache, at |-> now]
        /\ UNCHANGED <<tasks, queue, now, calls, transactions>>

\* The caller builds a value and keeps it in a variable: x = {a: 1}.
NewValue(values) ==
    /\ last = Idle
    /\ \E v \in CallerVars, value \in values :
          LET ref == Fresh(heap)
              h1 == (v :> ref) @@ held
          IN  /\ held' = h1
              /\ heap' = Collect((ref :> value) @@ heap, cache, h1)
    /\ UNCHANGED <<tasks, queue, last, cache, now, calls, transactions>>

\* The caller writes a property of an object it holds: x.a = 2.
Mutate ==
    /\ last = Idle
    /\ \E v \in DOMAIN held :
          /\ heap[held[v]].t = "object"
          /\ heap[held[v]] # Obj("a" :> Num(2))
          /\ heap' = [heap EXCEPT ![held[v]] = Obj("a" :> Num(2))]
    /\ UNCHANGED <<tasks, queue, last, cache, now, held, calls,
                   transactions>>

Set(keys, ttls) ==
    /\ last = Idle
    /\ \E key \in keys, v \in DOMAIN held, ttl \in ttls :
          ApplyCache("set", [key |-> key, value |-> heap[held[v]], ttl |-> ttl],
                     set(cache, heap, key, held[v], ttl, now), Discard)

Get(targets) ==
    /\ last = Idle
    /\ \E key \in ProperKeys, target \in targets :
          ApplyCache("get", [key |-> key], get(cache, heap, key, now), target)

Has ==
    /\ last = Idle
    /\ \E key \in ProperKeys :
          ApplyCache("has", [key |-> key], has(cache, heap, key, now), Discard)

Delete ==
    /\ last = Idle
    /\ \E key \in ProperKeys :
          ApplyCache("delete", [key |-> key], delete(cache, heap, key), Discard)

Clear ==
    /\ last = Idle
    /\ ApplyCache("clear", NoArgs, clear(cache, heap), Discard)

\* One second passes.
Tick ==
    /\ last = Idle
    /\ now + MsPerSecond <= MaxSeconds * MsPerSecond
    /\ now' = now + MsPerSecond
    /\ UNCHANGED <<tasks, queue, last, cache, heap, held, calls,
                   transactions>>

\* The interval timer of the constructor fires: it does so again and again
\* for the life of the process, between any two calls.
CleanupExpired ==
    ApplyCache("cleanupExpired", NoArgs, cleanupExpired(cache, heap, now), Discard)

\* The cache over time: a caller with one plain value, every ttl, the clock
\* and the timer.
CacheNext ==
    \/ Respond
    \/ NewValue(PlainValues)
    \/ Set(CacheKeys, Ttls)
    \/ Get({Discard})
    \/ Has
    \/ Delete
    \/ Clear
    \/ Tick
    \/ CleanupExpired

SpecCache == Init /\ [][CacheNext]_vars

\* The same with the timer running: a due callback is not put off forever.
SpecCacheLive == SpecCache /\ WF_vars(CleanupExpired)

\* The cache and the caller's objects at one instant: every kind of value,
\* mutated before and after it is cached and read.
CopyNext ==
    \/ Respond
    \/ NewValue(AnyValues)
    \/ Mutate
    \/ Set(ProperKeys, {<<>>})
    \/ Get(CallerVars \cup {Discard})
    \/ Delete

SpecCopy == Init /\ [][CopyNext]_vars

\* ------------------------------------------------------------------ claims

\* The ids of a batch call that were persisted when the call started.
BatchExisting == Range(last.args.taskIds) \cap DOMAIN last.tasksBefore

\* The number of items of a results array that report success.
Successes(items) == Cardinality({k \in 1 .. Len(items) : items[k].success})

\* What a successful create must have done to the store: one new row under
\* an id no persisted task had, with the input status or the default, and
\* every other row as it was.
CreatedOneRow ==
    LET t == last.ret.task
    IN  /\ t.status = (IF last.args.dto.status = Absent THEN DefaultStatus
                       ELSE last.args.dto.status)
        /\ t.id \notin DOMAIN last.tasksBefore
        /\ DOMAIN tasks = DOMAIN last.tasksBefore \cup {t.id}
        /\ tasks[t.id] = t
        /\ \A i \in DOMAIN last.tasksBefore : tasks[i] = last.tasksBefore[i]

\* C1 as stated: every create that returns (existing owner, save and commit
\* succeeded) returns a task with the input or default status under an id
\* no other persisted task has, and has added exactly one
\* 'task-status-update' job carrying that id and that status.
C1_CreateEmitsExactlyOne ==
    (Called("create") /\ last.outcome = "returned") =>
        /\ CreatedOneRow
        /\ last.emitted = <<StatusUpdateEvent(last.ret.task.id, last.ret.task.status)>>

\* C1 amended: the same, except that the job is there only when the queue
\* accepted it: a create whose taskQueue.add is rejected still returns the
\* task and has added no job.
C1_CreateEmitsOneUnlessRejected ==
    (Called("create") /\ last.outcome = "returned") =>
        /\ CreatedOneRow
        /\ last.rejected = 0 =>
              last.emitted =
                  <<StatusUpdateEvent(last.ret.task.id, last.ret.task.status)>>
        /\ last.rejected # 0 => last.emitted = <<>>

\* A create without a status returned the task with the default status and
\* its job is the one the call added.
C1_Witness ==
    /\ Called("create") /\ last.outcome = "returned"
    /\ last.args.dto.status = Absent
    /\ last.rejected = 0
    /\ Len(last.emitted) = 1
    /\ last.tasksBefore # <<>>

\* C2: a create whose save succeeded and whose commit then failed has left
\* no status-update job on the queue.
C2_NoEventWithoutCommit ==
    (Called("create") /\ last.error = "CommitFailed") => last.emitted = <<>>

\* C3: a create or update that fails with a store error (save or commit)
\* raises it to the caller and leaves the persisted tasks exactly as they
\* were before the call; when the save failed the call emitted nothing.
C3_StoreFailureLeavesTasks ==
    ((Called("create") \/ Called("update"))
        /\ last.error \in {"SaveFailed", "CommitFailed"}) =>
        /\ last.outcome = "raised"
        /\ tasks = last.tasksBefore
        /\ last.error = "SaveFailed" => last.emitted = <<>>

\* C4: an update of an existing task that returns emits exactly one
\* status-update job (task id, new status) when the patch sets a status
\* other than the one persisted before the call, and none when the patch
\* status equals the persisted one or the patch has no status.
C4_UpdateEmitsOnStatusChange ==
    (Called("update") /\ last.outcome = "returned"
        /\ last.args.id \in DOMAIN last.tasksBefore) =>
        LET old == last.tasksBefore[last.args.id].status
            new == last.args.patch.status
        IN  IF new # Absent /\ new # old
            THEN last.emitted = <<StatusUpdateEvent(last.args.id, new)>>
            ELSE last.emitted = <<>>

\* The tasks a 'complete' batch has to change: those of its ids that were
\* persisted and not COMPLETED.
BatchToComplete ==
    {i \in BatchExisting : last.tasksBefore[i].status # COMPLETED}

\* C5: a 'complete' batch that returns has set to COMPLETED exactly the
\* tasks of BatchToComplete, reports their number (the service's updated
\* count), and has emitted exactly one job for each of them and none for
\* any other id, so that a repeated call emits nothing.
C5_BatchCompleteExact ==
    ((Called("batchProcessTasks") \/ Called("batchProcess"))
        /\ last.args.action = "complete" /\ last.outcome = "returned") =>
        /\ DOMAIN tasks = DOMAIN last.tasksBefore
        /\ \A i \in DOMAIN tasks :
              tasks[i] = IF i \in BatchToComplete
                         THEN [last.tasksBefore[i] EXCEPT !.status = COMPLETED]
                         ELSE last.tasksBefore[i]
        /\ Called("batchProcessTasks") =>
              last.ret = CountRet("updated", Cardinality(BatchToComplete))
        /\ Len(last.emitted) = Cardinality(BatchToComplete)
        /\ \A i \in BatchToComplete :
              \E k \in 1 .. Len(last.emitted) :
                  last.emitted[k] = StatusUpdateEvent(i, COMPLETED)

\* C6: a 'delete' batch over a non-empty id list whose store statements all
\* executed does not fail although some ids do not exist: it returns, every
\* task of the list is gone, every other task is as it was, the number it
\* reports (the service's deleted count, the controller's successful items)
\* is the number of listed ids that existed, and it emits nothing.
C6_BatchDeleteTolerant ==
    /\ (Called("batchProcessTasks") /\ last.args.action = "delete"
           /\ last.error # "DeleteFailed") =>
          /\ last.outcome = "returned"
          /\ last.ret = CountRet("deleted", Cardinality(BatchExisting))
          /\ tasks = Without(last.tasksBefore, Range(last.args.taskIds))
          /\ last.emitted = <<>>
    /\ (Called("batchProcess") /\ last.args.action = "delete"
           /\ Len(last.args.taskIds) > 0
           /\ \A k \in 1 .. Len(last.ret.items) :
                 last.ret.items[k].error # "DeleteFailed") =>
          /\ last.outcome = "returned"
          /\ Successes(last.ret.items) = Cardinality(BatchExisting)
          /\ tasks = Without(last.tasksBefore, Range(last.args.taskIds))
          /\ last.emitted = <<>>

\* A batch delete naming one id that existed and one that did not returned
\* the count 1.
C6_Witness ==
    /\ Called("batchProcessTasks") /\ last.args.action = "delete"
    /\ last.outcome = "returned"
    /\ BatchExisting # {}
    /\ Range(last.args.taskIds) \ BatchExisting # {}
    /\ last.ret.n = 1

C8_UpdateMissingReturnsNull ==
    (Called("update") /\ last.args.id \notin DOMAIN last.tasksBefore) =>
        /\ last.outcome = "returned"
        /\ last.ret = Null
        /\ tasks = last.tasksBefore
        /\ last.emitted = <<>>

\* An update of a missing id ran while another task was persisted.
C8_Witness ==
    /\ Called("update")
    /\ last.args.id \notin DOMAIN last.tasksBefore
    /\ last.args.patch.status # Absent
    /\ DOMAIN tasks # {}

\* C9: a batch request over a non-empty id list whose action is neither
\* 'complete' nor 'delete' raises to the caller instead of returning
\* per-item results, changes no task and emits nothing.
C9_InvalidActionRaises ==
    ((Called("batchProcessTasks") \/ Called("batchProcess"))
        /\ last.args.action \notin {"complete", "delete"}
        /\ Len(last.args.taskIds) > 0) =>
        /\ last.outcome = "raised"
        /\ tasks = last.tasksBefore
        /\ last.emitted = <<>>

\* Whether text contains query as a run of consecutive characters.
Contains(text, query) ==
    \E k \in 0 .. Len(text) :
        /\ k + Len(query) <= Len(text)
        /\ \A j \in 1 .. Len(query) : text[k + j] = query[j]

\* Whether a row satisfies every filter field the payload carries.
Satisfies(row, payload) ==
    /\ payload.status # Absent => row.status = payload.status
    /\ payload.priority # Absent => row.priority = payload.priority
    /\ payload.userId # Absent => row.userId = payload.userId
    /\ payload.searchQuery # <<>> =>
          \/ Contains(row.title, payload.searchQuery)
          \/ Contains(row.description, payload.searchQuery)
    /\ payload.dateFrom # <<>> => row.createdAt >= payload.dateFrom[1]
    /\ payload.dateTo # <<>> => row.createdAt <= payload.dateTo[1]

\* What findAll has to return for its payload: the count of the persisted
\* rows satisfying the filter, and a page of at most limit of them, ordered
\* by the sorting column in the sorting order the payload gives.
FindAllAnswers ==
    LET payload == last.args.payload
        page == last.ret.tasks
        column == OrderColumn(payload)
    IN  /\ last.outcome = "returned"
        /\ last.ret.count =
              Cardinality({i \in DOMAIN tasks : Satisfies(tasks[i], payload)})
        /\ Len(page) <= OrDefault(payload.limit, DefaultLimit)
        /\ \A k \in 1 .. Len(page) :
              /\ page[k].id \in DOMAIN tasks
              /\ page[k] = tasks[page[k].id]
              /\ Satisfies(page[k], payload)
        /\ \A j, k \in 1 .. Len(page) :
              (j < k /\ payload.sortingOrder # Absent) =>
                  InOrder(ColumnValue(page[j], column),
                          ColumnValue(page[k], column), payload.sortingOrder)

\* C10: for every filter specification, findAll returns the count of the
\* persisted tasks that satisfy all filter fields present, and a page of at
\* most limit matching tasks in the order asked for.
C10_FindAllCountsAndPages ==
    (Called("findAll") /\ last.args.payload.sortingColumn \in TaskColumns \cup {Absent})
        => FindAllAnswers

\* The same for the specifications whose page is absent or at least 1.
C10_FromPageOne ==
    (Called("findAll") /\ last.args.payload.sortingColumn \in TaskColumns \cup {Absent}
        /\ last.args.payload.page # <<0>>)
        => FindAllAnswers

\* C11: in every findAll call the column the ORDER BY clause is built from
\* is a column of the tasks table that can be sorted by: a caller's
\* sortingColumn that is none of them never reaches the query.
C11_OrderColumnAllowListed ==
    Called("findAll") => OrderColumn(last.args.payload) \in TaskColumns

\* The item the cache held under the key of the last call when the call
\* started, and whether it held one.
KeyOfLast == namespacedKey(last.args.key)
HeldItem == KeyOfLast \in DOMAIN last.cacheBefore
ItemBefore == last.cacheBefore[KeyOfLast]

\* C12: a set that returns stores the item with the expiry set time + ttl
\* seconds (300 without a ttl).  A get or has of a key whose item's expiry
\* the clock has passed answers absent (null, false) and leaves no item
\* under the key; one of a key whose item's expiry is still ahead answers
\* the item's value (true) and leaves the item as it is.
C12_ExpiryOnRead ==
    /\ (Called("set") /\ last.outcome = "returned") =>
          /\ KeyOfLast \in DOMAIN cache
          /\ cache[KeyOfLast].expiresAt =
                last.at + OrDefault(last.args.ttl, DefaultTtlSeconds) * MsPerSecond
    /\ ((Called("get") \/ Called("has")) /\ HeldItem) =>
          /\ last.outcome = "returned"
          /\ last.at > ItemBefore.expiresAt =>
                /\ last.ret = (IF Called("get") THEN Null ELSE BoolRet(FALSE))
                /\ KeyOfLast \notin DOMAIN cache
          /\ last.at < ItemBefore.expiresAt =>
                /\ cache = last.cacheBefore
                /\ Called("has") => last.ret = BoolRet(TRUE)
                /\ Called("get") =>
                      /\ last.ret.kind = "ref"
                      /\ last.ret.value = heap[ItemBefore.value]

\* A get found an item set with a ttl of one second whose expiry had passed.
C12_Witness ==
    /\ Called("get") /\ HeldItem
    /\ last.at > ItemBefore.expiresAt
    /\ ItemBefore.expiresAt > 0
    /\ last.ret = Null

\* The references of the cache's items and those of the caller's variables.
CacheRefs == {cache[k].value : k \in DOMAIN cache}
HeldRefs == {held[v] : v \in DOMAIN held}

\* What the state after a step of the cache and its caller has to satisfy
\* for a set to have stored `stored(value passed)` without aliasing: the
\* item a set has written holds that value; a get that found a live item
\* returns a value equal to the item's in an object that is not the item's;
\* no object of an item is one the caller holds; and a step that leaves the
\* map alone, a write of the caller to its objects among them, leaves the
\* value of every item as it was.
CopiesWithoutAlias(stored(_)) ==
    /\ ((Called("set") /\ last.outcome = "returned") =>
           heap[cache[KeyOfLast].value] = stored(last.args.value))'
    /\ ((Called("get") /\ last.ret.kind = "ref") =>
           /\ KeyOfLast \in DOMAIN cache
           /\ last.ret.value = heap[cache[KeyOfLast].value]
           /\ last.ret.ref \notin CacheRefs)'
    /\ (CacheRefs \cap HeldRefs = {})'
    /\ cache' = cache => StoredValues' = StoredValues

\* The value as it is.
Same(v) == v

\* C13: the value get(key) returns is structurally equal to the value
\* passed to the last set(key) and is a copy of its own: writes of the
\* caller to the object it passed, or to one it got, change no later get.
C13_StructurallyEqualCopy == [][CopiesWithoutAlias(Same)]_vars

\* The same for the JSON round trip of the value passed instead of the
\* value itself.
C13_CopyOfJsonRoundTrip == [][CopiesWithoutAlias(Clone)]_vars

\* Whether the cache holds, under the namespaced key k, an item whose
\* expiry has passed.
HoldsExpired(k) == k \in DOMAIN cache /\ cache[k].expiresAt < now

\* C14: a run of the sweep leaves exactly the items whose expiry had not
\* passed when it ran, each as it was; and an item whose expiry has passed
\* does not stay in the cache for ever, whatever calls are or are not made.
C14_SweepRemovesExpired ==
    /\ [](Called("cleanupExpired") =>
            /\ DOMAIN cache =
                  {k \in DOMAIN last.cacheBefore :
                      ~(last.cacheBefore[k].expiresAt < last.at)}
            /\ \A k \in DOMAIN cache : cache[k] = last.cacheBefore[k])
    /\ \A key \in ProperKeys :
          HoldsExpired(namespacedKey(key)) ~> ~HoldsExpired(namespacedKey(key))

\* The sweep ran on a cache of two items, one expired and one not, and
\* left the one that was not.
C14_Witness ==
    /\ Called("cleanupExpired")
    /\ Cardinality(DOMAIN last.cacheBefore) = 2
    /\ Cardinality(DOMAIN cache) = 1
    /\ \A k \in DOMAIN cache : cache[k].expiresAt > last.at

\* Whether the last call was a set with a key that is the empty string or
\* no string.
SetWithBadKey ==
    Called("set") /\ (last.args.key.text = "" \/ last.args.key.type # "string")

\* C15: a set with an empty or non-string key raises the error of the key
\* validation, and the cache after it holds the keys, values and expiries
\* it held before.
C15_BadKeyRejected ==
    [][SetWithBadKey' =>
          /\ last'.outcome = "raised"
          /\ last'.error = "Invalid cache key"
          /\ cache' = cache
          /\ StoredValues' = StoredValues]_vars

\* A set with a number as key ran on a cache that held an item.
C15_Witness ==
    /\ SetWithBadKey
    /\ last.args.key.type = "number"
    /\ last.outcome = "raised"
    /\ cache # <<>>

\* C16: a create, update or batch complete during which the queue rejected
\* a status-update job has its store write persisted all the same: the row
\* create saved is there with the dto's fields, the task update saved has
\* the patch merged in, and every persisted id of the batch is COMPLETED;
\* every other row is as it was.
C16_EnqueueFailureKeepsWrite ==
    (last.op \in {"create", "update", "batchProcessTasks", "batchProcess"}
        /\ last.rejected > 0) =>
        /\ Called("create") =>
              \E id \in DOMAIN tasks \ DOMAIN last.tasksBefore :
                  /\ tasks = (id :> NewTask(last.args.dto, id, tasks[id].createdAt))
                                @@ last.tasksBefore
        /\ Called("update") =>
              tasks = [last.tasksBefore EXCEPT
                          ![last.args.id] = Assign(@, last.args.patch)]
        /\ (Called("batchProcessTasks") \/ Called("batchProcess")) =>
              /\ last.args.action = "complete"
              /\ DOMAIN tasks = DOMAIN last.tasksBefore
              /\ \A i \in DOMAIN tasks :
                    tasks[i] = IF i \in BatchExisting
                               THEN [last.tasksBefore[i] EXCEPT !.status = COMPLETED]
                               ELSE last.tasksBefore[i]

\* A batch complete whose job the queue rejected had set a task that was
\* not COMPLETED to COMPLETED.
C16_Witness ==
    /\ Called("batchProcessTasks") /\ last.args.action = "complete"
    /\ last.rejected > 0
    /\ \E i \in BatchExisting :
          last.tasksBefore[i].status # COMPLETED /\ tasks[i].status = COMPLETED

\* C17: whatever calls have been made, every persisted task has a status
\* that is a member of the status enum and a priority that is a member of
\* the priority enum.
C17_EnumMembersOnly ==
    \A i \in DOMAIN tasks :
        tasks[i].status \in TaskStatus /\ tasks[i].priority \in TaskPriority

\* The ids a batch over taskIds has to change in the store `before`: for
\* 'complete' the persisted ones that are not COMPLETED, for 'delete' the
\* persisted ones.
BatchTargets(taskIds, action, before) ==
    {i \in Range(taskIds) \cap DOMAIN before :
        action = "complete" => before[i].status # COMPLETED}

\* Whether the row of id i in rows is not the one it was in before.
RowChanged(rows, before, i) == i \notin DOMAIN rows \/ rows[i] # before[i]

\* Whether the batch call that ran last failed: it raised, or one of its
\* items reports an error of the store.
BatchFailed ==
    \/ last.outcome = "raised"
    \/ /\ last.ret.kind = "results"
       /\ \E k \in 1 .. Len(last.ret.items) : last.ret.items[k].error \in StoreErrors

\* C18: a request that reads the tasks while a batch request is in progress
\* sees the ids the batch has to change either all changed or all as they
\* were; and after a batch request that failed every id of it is as it was.
C18_BatchAllOrNothing ==
    /\ Called("find") =>
          \A c \in Requests :
              calls[c].op = "batchProcess" =>
                  LET ids == BatchTargets(calls[c].taskIds, calls[c].action,
                                          calls[c].before)
                  IN  \/ \A i \in ids : RowChanged(last.ret.rows, calls[c].before, i)
                      \/ \A i \in ids : ~RowChanged(last.ret.rows, calls[c].before, i)
    /\ ((Called("batchProcess") \/ Called("batchProcessTasks")) /\ BatchFailed) =>
          \A i \in Range(last.args.taskIds) \cap DOMAIN last.tasksBefore :
              ~RowChanged(tasks, last.tasksBefore, i)

\* The part of C18 that is about the service's batchProcessTasks and its one
\* store statement failing.
C18_StatementAllOrNothing ==
    (Called("batchProcessTasks") /\ last.error \in StoreErrors) =>
        tasks = last.tasksBefore

\* C19: a batch request over a non-empty list does not end at the id that
\* fails.  The controller's request returns one item per id, in order; the
\* item of an id that was not persisted, or whose store write failed,
\* reports the failure; the id of every item that reports success has been
\* processed (COMPLETED, or gone); and for 'complete' every id that was
\* processed and was not COMPLETED before has its status-update job.  The
\* service's batch complete returns although the queue rejected a job, with
\* the jobs of the other ids added.
C19_ItemFailureIsolated ==
    /\ (Called("batchProcess") /\ Len(last.args.taskIds) > 0
           /\ last.args.action \in {"complete", "delete"}) =>
          /\ last.outcome = "returned"
          /\ Len(last.ret.items) = Len(last.args.taskIds)
          /\ \A k \in 1 .. Len(last.ret.items) :
                LET item == last.ret.items[k]
                    id == last.args.taskIds[k]
                IN  /\ item.taskId = id
                    /\ id \notin DOMAIN last.tasksBefore => ~item.success
                    /\ item.error \in StoreErrors => ~item.success
                    /\ (item.success /\ last.args.action = "complete") =>
                          /\ tasks[id].status = COMPLETED
                          /\ last.tasksBefore[id].status # COMPLETED =>
                                \E j \in 1 .. Len(last.emitted) :
                                    last.emitted[j] = StatusUpdateEvent(id, COMPLETED)
                    /\ (item.success /\ last.args.action = "delete") =>
                          id \notin DOMAIN tasks
    /\ (Called("batchProcessTasks") /\ last.args.action = "complete"
           /\ last.rejected > 0) =>
          /\ last.outcome = "returned"
          /\ Len(last.emitted) = Len(last.args.taskIds) - last.rejected

\* C20: an update that returns a task has written its patch over the row
\* as it was persisted at the moment of the write: the fields the patch
\* names have the patch's values, and every other field has the value the
\* row had just before the write, whichever call committed it.
C20_MergesIntoCurrentRow ==
    (Called("update") /\ last.outcome = "returned" /\ last.ret # Null) =>
        /\ last.args.id \in DOMAIN tasks
        /\ tasks[last.args.id] =
              Assign(last.tasksBefore[last.args.id], last.args.patch)

\* What a call answers for a key it reports absent: null from get, false
\* from has and from delete.
AbsentAnswer == IF Called("get") THEN Null ELSE BoolRet(FALSE)

\* C21: get, has and delete of a key whose item's expiry has passed answer
\* as for a key with no item (null, false, false), resident though the
\* item is; delete answers true only for a key that held an item that had
\* not expired; after a delete the key holds no item and after a clear no
\* key does, and get and has of a key that holds no item answer absent.
C21_ExpiredIsAbsent ==
    /\ (last.op \in {"get", "has", "delete"} /\ HeldItem
           /\ last.at > ItemBefore.expiresAt) =>
          last.ret = AbsentAnswer
    /\ (Called("delete") /\ last.ret = BoolRet(TRUE)) =>
          HeldItem /\ ~Expired(ItemBefore, last.at)
    /\ Called("delete") => KeyOfLast \notin DOMAIN cache
    /\ Called("clear") => cache = <<>>
    /\ ((Called("get") \/ Called("has")) /\ ~HeldItem) =>
          last.ret = AbsentAnswer /\ KeyOfLast \notin DOMAIN cache

\* The same without what the claim says of delete's answer.
C21_ExceptDeleteAnswer ==
    /\ ((Called("get") \/ Called("has")) /\ HeldItem
           /\ last.at > ItemBefore.expiresAt) =>
          last.ret = AbsentAnswer
    /\ Called("delete") =>
          /\ last.ret = BoolRet(HeldItem)
          /\ KeyOfLast \notin DOMAIN cache
    /\ Called("clear") => cache = <<>>
    /\ ((Called("get") \/ Called("has")) /\ ~HeldItem) =>
          last.ret = AbsentAnswer /\ KeyOfLast \notin DOMAIN cache

\* C22: no create and no update leaves the transaction it started active:
\* whenever a call has ended, every transaction started so far has been
\* committed or rolled back.
C22_NoTransactionLeftOpen == transactions = 0

\* The same for every call but an update that finds no task: such a call
\* ends with as many transactions active as it began with.
C22_ClosedUnlessNotFound ==
    [][~(Called("update") /\ last.ret = Null /\ last.outcome = "returned")' =>
          transactions' = transactions]_vars

\* Whether a filter specification is one the input contract admits: page an
\* integer that is at least 0, limit an integer that is at least 1, each
\* possibly absent.
Admitted(payload) ==
    /\ payload.page # <<>> => payload.page[1] \in Nat
    /\ payload.limit # <<>> => payload.limit[1] \in Nat \ {0}

\* C23: for every admitted page and limit, the offset findAll passes to the
\* store is not negative.
C23_OffsetNotNegative ==
    (Called("findAll") /\ Admitted(last.args.payload)) => Skip(last.args.payload) >= 0

\* For a page that is absent or at least 1 it is not, and the offset is
\* (page - 1) * limit with the defaults of page and limit.
C23_FromPageOne ==
    (Called("findAll") /\ Admitted(last.args.payload)
        /\ last.args.payload.page # <<0>>) =>
        /\ Skip(last.args.payload) >= 0
        /\ last.args.payload.page = <<>> => Skip(last.args.payload) = 0
        /\ (last.args.payload.page = <<2>> /\ last.args.payload.limit = <<>>) =>
              Skip(last.args.payload) = DefaultLimit

====
